---- MODULE Spec2Model ----
(***************************************************************************)
(* A model of the carrier client of the FedEx shipment gateway              *)
(* (src/app/services/fedex_client.py): the cached OAuth token, the audit    *)
(* log written by _log_interaction, and the four public operations          *)
(* get_rate, create_shipment, track_shipment and request_spod, each         *)
(* followed statement by statement.                                         *)
(*                                                                          *)
(* Spec: one FedExClient instance used by one caller at a time.             *)
(* SpecRates: the rate parser and the /rates handler on longer answers.     *)
(* SpecShipment: _create_and_send_shipment of main.py around the client.    *)
(* SpecShared: several callers of _get_access_token on one instance.        *)
(* SpecTracking: _extract_tracking on response payloads of any shape.       *)
(*                                                                          *)
(* An invocation walks through the program points                           *)
(*   token -> token_post -> token_log -> token_check -> post -> log -> check *)
(* and ends in pc = "done" with `outcome` naming how it ended: "ok", or     *)
(* the detail of the HTTPException raised, or the kind of another exception *)
(* that escaped the method.                                                 *)
(*                                                                          *)
(* The dictionary literal of get_rate (lines 190-213) carries one closing   *)
(* brace too many; the model follows the control flow of the method, which  *)
(* does not depend on the shape of that literal.                            *)
(***************************************************************************)
EXTENDS Integers, Sequences, FiniteSets, TLC

VARIABLES
    access_token,   \* FedExClient._access_token (None or a token id)
    token_expiry,   \* FedExClient._token_expiry
    now,            \* time.time(), in seconds
    api_logs,       \* ApiLog rows committed by the current invocation
    log_files,      \* log files it wrote under LOG_DIR
    files,          \* label and proof-of-delivery files it wrote
    pc,             \* program point of the current invocation
    op,             \* the public method invoked
    service_type,   \* its service_type argument
    carrier,        \* what the carrier answers to the operation's own call
    token_reply,    \* what the token endpoint answered in this invocation
    outcome,        \* how the invocation ended
    result,         \* what it returned
    http_calls,     \* urls of the outbound requests issued by this invocation
    bearer,         \* the token _get_access_token returned to _auth_headers
    cached_before,  \* the (token, expiry) pair when the invocation started
    ncalls,         \* invocations started so far
    exchanges,      \* requests sent to the token endpoint so far
    tok_calls,      \* the last two runs of _get_access_token: when each
                    \* read the clock, the exchanges it sent and the
                    \* (token, expiry) pair it left
    response,       \* what the /rates handler of main.py answered
    shipment,       \* the Shipment row of _create_and_send_shipment
    ship_args,      \* is_return and return_reference of create_shipment
    ship_body,      \* the body create_shipment sent to /ship/v1/shipments
    threads,        \* callers sharing the instance: where each stands in
                    \* _get_access_token and the exchange it sent
    payload         \* the response JSON handed to _extract_tracking

vars == <<access_token, token_expiry, now, api_logs, log_files, files, pc, op,
          service_type, carrier, token_reply, outcome, result, http_calls,
          bearer, cached_before, ncalls, exchanges, tok_calls, response,
          shipment, ship_args, ship_body, threads, payload>>

(* The state kept outside one sequential use of a FedExClient: the callers  *)
(* of the client in main.py.                                                *)
outside == <<response, shipment, ship_args, ship_body, threads, payload>>

----------------------------------------------------------------------------
(* Bounds of the model *)

MaxCalls == 2
MaxTime == 45
MaxDetails == 1
MaxEntries == 3
MaxThreads == 2

TickSteps == {15}
ExpiresInValues == {20, 60}

----------------------------------------------------------------------------
(* Program constants *)

None == 0
SafetyMargin == 30
DefaultExpiresIn == 3600
HTTP_200_OK == 200
HTTP_201_CREATED == 201

NoService == "None"

SERVICE_TYPE_MAP ==
    [c \in {"FIP", "IPE", "FIE", "RE", "PO", "FICP", "IPF", "IEF", "REF",
            "RETURNS", "FIRST", "FP"} |->
        CASE c = "FIP" -> "INTERNATIONAL_PRIORITY"
          [] c = "IPE" -> "INTERNATIONAL_PRIORITY_EXPRESS"
          [] c = "FIE" -> "INTERNATIONAL_ECONOMY"
          [] c = "RE" -> "FEDEX_REGIONAL_ECONOMY"
          [] c = "PO" -> "PRIORITY_OVERNIGHT"
          [] c = "FICP" -> "FEDEX_INTERNATIONAL_CONNECT_PLUS"
          [] c = "IPF" -> "INTERNATIONAL_PRIORITY_FREIGHT"
          [] c = "IEF" -> "INTERNATIONAL_ECONOMY_FREIGHT"
          [] c = "REF" -> "INTERNATIONAL_ECONOMY_FREIGHT"
          [] c = "RETURNS" -> "INTERNATIONAL_PRIORITY"
          [] c = "FIRST" -> "FEDEX_FIRST"
          [] c = "FP" -> "FEDEX_PRIORITY"]

SERVICE_TYPE_REVERSE_MAP ==
    [s \in {"INTERNATIONAL_PRIORITY", "INTERNATIONAL_PRIORITY_EXPRESS",
            "INTERNATIONAL_ECONOMY", "FEDEX_REGIONAL_ECONOMY",
            "PRIORITY_OVERNIGHT", "FEDEX_INTERNATIONAL_CONNECT_PLUS",
            "INTERNATIONAL_PRIORITY_FREIGHT", "INTERNATIONAL_ECONOMY_FREIGHT",
            "FEDEX_FIRST", "FEDEX_PRIORITY"} |->
        CASE s = "INTERNATIONAL_PRIORITY" -> "FIP"
          [] s = "INTERNATIONAL_PRIORITY_EXPRESS" -> "IPE"
          [] s = "INTERNATIONAL_ECONOMY" -> "FIE"
          [] s = "FEDEX_REGIONAL_ECONOMY" -> "RE"
          [] s = "PRIORITY_OVERNIGHT" -> "PO"
          [] s = "FEDEX_INTERNATIONAL_CONNECT_PLUS" -> "FICP"
          [] s = "INTERNATIONAL_PRIORITY_FREIGHT" -> "IPF"
          [] s = "INTERNATIONAL_ECONOMY_FREIGHT" -> "IEF"
          [] s = "FEDEX_FIRST" -> "FIRST"
          [] s = "FEDEX_PRIORITY" -> "FP"]

(* The endpoint each operation posts to. *)
Url(o) ==
    CASE o = "get_rate" -> "/rate/v1/rates/quotes"
      [] o = "create_shipment" -> "/ship/v1/shipments"
      [] o = "track_shipment" -> "/track/v1/trackingnumbers"
      [] o = "request_spod" -> "/track/v1/proof-of-delivery"

TokenUrl == "/oauth/token"

----------------------------------------------------------------------------
(* What the callers and the carrier can supply *)

ServiceCodes == {"FIP", "RETURNS"}
UnsupportedCodes == {"XXX", "INTERNATIONAL_PRIORITY"}
RateServiceInputs == {NoService} \cup ServiceCodes \cup UnsupportedCodes
ShipServiceInputs == ServiceCodes \cup UnsupportedCodes

CarrierStatuses == {HTTP_200_OK, HTTP_201_CREATED, 401}

SeqsUpTo(S, n) == UNION {[1..k -> S] : k \in 0..n}

(* One rateReplyDetails entry: the carrier's service string and what its    *)
(* first ratedShipmentDetails holds as totalNetCharge: "number", "null"     *)
(* (an explicit null), "missing" (no such key), or "absent" (the entry has  *)
(* no ratedShipmentDetails at all).                                         *)
RateEntries ==
    {[serviceType |-> "INTERNATIONAL_PRIORITY", rated |-> "number"],
     [serviceType |-> "FEDEX_GROUND", rated |-> "number"],
     [serviceType |-> "INTERNATIONAL_PRIORITY", rated |-> "absent"],
     [serviceType |-> "INTERNATIONAL_PRIORITY", rated |-> "missing"],
     [serviceType |-> "INTERNATIONAL_PRIORITY", rated |-> "null"]}

Reply(f, s, d, doc, t, l) ==
    [fail |-> f, status |-> s, details |-> d, doc |-> doc, tracking |-> t,
     label |-> l]

NoReply == Reply(FALSE, 0, <<>>, "none", "none", "none")
TransportFailure == Reply(TRUE, 0, <<>>, "none", "none", "none")

RateCarrier ==
    {TransportFailure}
    \cup {Reply(FALSE, s, <<>>, "none", "none", "none") :
            s \in CarrierStatuses \ {HTTP_200_OK}}
    \cup {Reply(FALSE, HTTP_200_OK, d, "none", "none", "none") :
            d \in SeqsUpTo(RateEntries, MaxDetails)}

TrackCarrier ==
    {TransportFailure}
    \cup {Reply(FALSE, s, <<>>, "none", "none", "none") : s \in CarrierStatuses}

(* The first proofOfDeliveryDocuments entry: "pdf" (base64 content),        *)
(* "malformed" (content that is not base64), "absent" (no document or no    *)
(* content).                                                                *)
SpodCarrier ==
    {TransportFailure}
    \cup {Reply(FALSE, s, <<>>, "absent", "none", "none") :
            s \in CarrierStatuses \ {HTTP_200_OK}}
    \cup {Reply(FALSE, HTTP_200_OK, <<>>, doc, "none", "none") :
            doc \in {"pdf", "malformed", "absent"}}

ShipCarrier ==
    {TransportFailure}
    \cup {Reply(FALSE, s, <<>>, "none", t, l) :
            s \in CarrierStatuses, t \in {"master", "absent"},
            l \in {"encoded", "absent"}}

(* A token endpoint answer. *)
TokenReplies ==
    {[fail |-> TRUE, status |-> 0, has_token |-> FALSE, has_expires |-> FALSE,
      expires_in |-> 0]}
    \cup {[fail |-> FALSE, status |-> 401, has_token |-> FALSE,
           has_expires |-> FALSE, expires_in |-> 0]}
    \cup {[fail |-> FALSE, status |-> HTTP_200_OK, has_token |-> t,
           has_expires |-> TRUE, expires_in |-> e] :
            t \in BOOLEAN, e \in ExpiresInValues}
    \cup {[fail |-> FALSE, status |-> HTTP_200_OK, has_token |-> TRUE,
           has_expires |-> FALSE, expires_in |-> 0]}

NoTokenReply ==
    [fail |-> FALSE, status |-> 0, has_token |-> FALSE, has_expires |-> FALSE,
     expires_in |-> 0]

(* How writing one audit record can go: both writes succeed, write_text     *)
(* raises, or the database add/commit raises after the file was written.    *)
LogOutcomes == {"ok", "file_error", "db_error"}

----------------------------------------------------------------------------
(* FedExClient._log_interaction, lines 85-123: write the log file, then add *)
(* and commit the ApiLog row.  Nothing catches an exception of either       *)
(* write, so a failure leaves the method by raising.                        *)

LogInteraction(endpoint, status_code, io) ==
    [files  |-> IF io = "file_error" THEN log_files ELSE log_files + 1,
     rows   |-> IF io = "ok"
                  THEN Append(api_logs, [endpoint |-> endpoint,
                                         status_code |-> status_code])
                  ELSE api_logs,
     raised |-> io # "ok"]

(* The test of line 126: a cached token, more than the margin from expiry.  *)
TokenFresh_Inverted ==
    access_token # None /\ now > token_expiry - SafetyMargin

TokenFresh_NoExpiry == access_token # None

TokenFresh_NoMargin == access_token # None /\ now < token_expiry

TokenFresh ==
    access_token # None /\ now < token_expiry - SafetyMargin

(* payload.get("expires_in", 3600), line 145 *)
ExpiresIn(reply) ==
    IF reply.has_expires THEN reply.expires_in ELSE DefaultExpiresIn

IssuedToken_KeepOld(reply) ==
    IF reply.has_token THEN exchanges ELSE access_token

(* payload.get("access_token"), line 144: the carrier issues a new token    *)
(* with every exchange; it is named by the number of the exchange.          *)
IssuedToken(reply) == IF reply.has_token THEN exchanges ELSE None

(* The service check of get_rate, line 187, and of create_shipment, 275.    *)
RateUnsupported_Missing(st) == FALSE

RateUnsupported(st) == st # NoService /\ st \notin DOMAIN SERVICE_TYPE_MAP

ShipUnsupported(st) == st \notin DOMAIN SERVICE_TYPE_MAP

ServiceCode_CarrierName(st, fedex_service) ==
    IF fedex_service \in DOMAIN SERVICE_TYPE_REVERSE_MAP
      THEN SERVICE_TYPE_REVERSE_MAP[fedex_service]
      ELSE fedex_service

(* service_type or SERVICE_TYPE_REVERSE_MAP.get(fedex_service, ...), 231 *)
ServiceCode(st, fedex_service) ==
    IF st # NoService THEN st
    ELSE IF fedex_service \in DOMAIN SERVICE_TYPE_REVERSE_MAP
           THEN SERVICE_TYPE_REVERSE_MAP[fedex_service]
           ELSE fedex_service

(* The loop of get_rate, lines 229-246, from entry i on.  An entry whose    *)
(* first rated detail has no totalNetCharge key yields the default {} and   *)
(* float({}) raises; the except clause of line 247 then drops every quote.  *)
RECURSIVE RateLoop(_, _, _, _)
RateLoop(details, i, quotes, st) ==
    IF i > Len(details) THEN [raised |-> FALSE, quotes |-> quotes]
    ELSE LET d == details[i] IN
         CASE d.rated = "absent" -> RateLoop(details, i + 1, quotes, st)
           [] d.rated = "null" -> RateLoop(details, i + 1, quotes, st)
           [] d.rated = "missing" -> [raised |-> TRUE, quotes |-> quotes]
           [] d.rated = "number" ->
                RateLoop(details, i + 1,
                         Append(quotes,
                                [service_type |-> ServiceCode(st, d.serviceType)]),
                         st)

(* Lines 226-248: the quotes parsed from a 200 response. *)
ParseRates(details, st) ==
    LET r == RateLoop(details, 1, <<>>, st) IN
    IF r.raised THEN <<>> ELSE r.quotes

(* Lines 250-256: what get_rate does with the parsed quotes. *)
RateVerdict(st, quotes) ==
    IF st # NoService /\ quotes = <<>> THEN "FedEx rate missing in response"
    ELSE IF quotes = <<>> THEN "FedEx rate missing in response"
    ELSE "ok"

(* The status each operation accepts: lines 220, 449, 519, 541. *)
Accepted(o) ==
    IF o = "create_shipment" THEN {HTTP_200_OK, HTTP_201_CREATED}
    ELSE {HTTP_200_OK}

WriteFile(fs, path, content) ==
    {f \in fs : f.path # path} \cup {[path |-> path, content |-> content]}

----------------------------------------------------------------------------
NoResponse == [single |-> FALSE, quotes |-> <<>>]
NoShipment == [status |-> "none", tracking_number |-> "", label_path |-> ""]
NoReference == "None"
NoBody ==
    [built |-> FALSE, serviceType |-> "none", rma_reason |-> "none",
     special_types |-> {}, broker_detail |-> FALSE, email_recipients |-> 0,
     customs |-> FALSE, commodities |-> 0]

NoPayload ==
    [output |-> "absent", shipments |-> "absent", master |-> "absent",
     pieces |-> "absent", piece_tracking |-> "absent"]

Threads == 1..MaxThreads
NoThread == [pc |-> "idle", exchange |-> 0]

(* The defaults of create_shipment's signature, lines 263-273. *)
DefaultArgs ==
    [is_return |-> FALSE, return_reference |-> NoReference,
     broker_option |-> FALSE, broker |-> FALSE,
     third_party_consignee |-> FALSE, ship_alert_emails |-> <<>>,
     etd_documents |-> 0, include_customs |-> FALSE, commodities |-> 0]

(* Before any handler of main.py has run. *)
InitOutside ==
    /\ response = NoResponse
    /\ shipment = NoShipment
    /\ ship_args = DefaultArgs
    /\ ship_body = NoBody
    /\ threads = [t \in Threads |-> NoThread]
    /\ payload = NoPayload

(* The state after FedExClient.__init__, lines 77-83 *)

Init ==
    /\ access_token = None
    /\ token_expiry = 0
    /\ now = 0
    /\ api_logs = <<>>
    /\ log_files = 0
    /\ files = {}
    /\ pc = "idle"
    /\ op = "none"
    /\ service_type = NoService
    /\ carrier = NoReply
    /\ token_reply = NoTokenReply
    /\ outcome = "none"
    /\ result = <<>>
    /\ http_calls = <<>>
    /\ bearer = None
    /\ cached_before = <<None, 0>>
    /\ ncalls = 0
    /\ exchanges = 0
    /\ tok_calls = <<>>
    /\ InitOutside

client_state == <<access_token, token_expiry>>
audit_state == <<api_logs, log_files>>
call_args == <<op, service_type, carrier>>

(* Time passes between invocations; one invocation is short against the    *)
(* step of the clock.                                                       *)
Tick ==
    /\ pc = "idle"
    /\ \E d \in TickSteps :
        /\ now + d <= MaxTime
        /\ now' = now + d
    /\ UNCHANGED <<outside,
                   client_state, audit_state, files, pc, call_args,
                   token_reply, outcome, result, http_calls, bearer,
                   cached_before, ncalls, exchanges, tok_calls>>

(* A caller enters one of the public methods. *)
Enter(o, st, c) ==
    /\ pc = "idle"
    /\ ncalls < MaxCalls
    /\ ncalls' = ncalls + 1
    /\ op' = o
    /\ service_type' = st
    /\ carrier' = c
    /\ cached_before' = <<access_token, token_expiry>>
    /\ UNCHANGED <<outside,
                   client_state, now, audit_state, files, token_reply, result,
                   http_calls, bearer, exchanges, tok_calls>>

Raise_RetryAuth(detail) ==
    IF detail = "FedEx auth failed"
      THEN /\ pc' = "token_post"
           /\ outcome' = "running"
      ELSE /\ pc' = "done"
           /\ outcome' = detail

Raise_SwallowAuth(detail) ==
    IF detail = "FedEx auth token missing"
      THEN /\ pc' = "post"
           /\ outcome' = "running"
      ELSE /\ pc' = "done"
           /\ outcome' = detail

(* raise: the invocation ends with the exception. *)
Raise(detail) ==
    /\ pc' = "done"
    /\ outcome' = detail

Goto(label) ==
    /\ pc' = label
    /\ outcome' = "running"

(* get_rate, lines 187-215: the service check, then the request body. *)
get_rate ==
    \E st \in RateServiceInputs, c \in RateCarrier :
        /\ Enter("get_rate", st, c)
        /\ IF RateUnsupported(st)
             THEN Raise("Unsupported service type")
             ELSE Goto("token")

(* create_shipment, lines 275-354: the service check, the commodity lines,  *)
(* then the request body, whose "serviceType" reads actual_service, a name  *)
(* that is bound nowhere: building the body raises NameError.               *)
create_shipment ==
    \E st \in ShipServiceInputs, c \in ShipCarrier :
        /\ Enter("create_shipment", st, c)
        /\ IF ShipUnsupported(st)
             THEN Raise("Unsupported service type")
             ELSE Raise("NameError")

(* track_shipment, lines 504-515 *)
track_shipment ==
    \E c \in TrackCarrier :
        /\ Enter("track_shipment", NoService, c)
        /\ Goto("token")

(* request_spod, lines 526-537 *)
request_spod ==
    \E c \in SpodCarrier :
        /\ Enter("request_spod", NoService, c)
        /\ Goto("token")

Remember(rec) ==
    IF Len(tok_calls) < 2 THEN Append(tok_calls, rec)
    ELSE <<tok_calls[2], rec>>

Amend(rec) == [tok_calls EXCEPT ![Len(tok_calls)] = rec]

LastTok == tok_calls[Len(tok_calls)]

(* _get_access_token, lines 126-127, reached through _auth_headers while    *)
(* the arguments of self._http.post are evaluated.                          *)
GetAccessToken ==
    /\ pc = "token"
    /\ IF TokenFresh
         THEN Goto("post") /\ bearer' = access_token
         ELSE Goto("token_post") /\ bearer' = bearer
    /\ tok_calls' = Remember([t |-> now, posts |-> 0, token |-> access_token,
                              expiry |-> token_expiry])
    /\ UNCHANGED <<outside,
                   client_state, now, audit_state, files, call_args,
                   token_reply, result, http_calls, ncalls,
                   exchanges,
                   cached_before>>

(* Line 135: the client-credentials exchange.  A transport failure raises   *)
(* out of self._http.post.                                                  *)
TokenPost ==
    /\ pc = "token_post"
    /\ http_calls' = Append(http_calls, TokenUrl)
    /\ exchanges' = exchanges + 1
    /\ tok_calls' = Amend([LastTok EXCEPT !.posts = @ + 1])
    /\ \E reply \in TokenReplies :
        /\ token_reply' = reply
        /\ IF reply.fail THEN Raise("TransportError") ELSE Goto("token_log")
    /\ UNCHANGED <<outside,
                   client_state, now, audit_state, files, call_args, result,
                   ncalls,
                   bearer, cached_before>>

(* Line 136 *)
TokenLog ==
    /\ pc = "token_log"
    /\ \E io \in LogOutcomes :
        LET l == LogInteraction(TokenUrl, token_reply.status, io) IN
        /\ api_logs' = l.rows
        /\ log_files' = l.files
        /\ IF l.raised THEN Raise("LogError") ELSE Goto("token_check")
    /\ UNCHANGED <<outside,
                   client_state, now, files, call_args, token_reply, result,
                   http_calls, ncalls, exchanges, tok_calls,
                   bearer, cached_before>>

(* Lines 138-150 *)
TokenCheck ==
    /\ pc = "token_check"
    /\ IF token_reply.status # HTTP_200_OK
         THEN /\ Raise("FedEx auth failed")
              /\ UNCHANGED <<client_state, tok_calls, bearer>>
         ELSE /\ access_token' = IssuedToken(token_reply)
              /\ token_expiry' = now + ExpiresIn(token_reply)
              /\ tok_calls' = Amend([LastTok EXCEPT
                                        !.token = IssuedToken(token_reply),
                                        !.expiry = now + ExpiresIn(token_reply)])
              /\ IF IssuedToken(token_reply) = None
                   THEN Raise("FedEx auth token missing") /\ bearer' = bearer
                   ELSE Goto("post") /\ bearer' = IssuedToken(token_reply)
    /\ UNCHANGED <<outside,
                   now, audit_state, files, call_args, token_reply, result,
                   http_calls, ncalls, exchanges,
                   cached_before>>

(* Lines 217, 516, 538: the operation's own request. *)
Post ==
    /\ pc = "post"
    /\ http_calls' = Append(http_calls, Url(op))
    /\ IF carrier.fail THEN Raise("TransportError") ELSE Goto("log")
    /\ UNCHANGED <<outside,
                   client_state, now, audit_state, files, call_args,
                   token_reply, result, ncalls, exchanges,
                   tok_calls,
                   bearer, cached_before>>

(* Lines 218, 517, 539 *)
Log ==
    /\ pc = "log"
    /\ \E io \in LogOutcomes :
        LET l == LogInteraction(Url(op), carrier.status, io) IN
        /\ api_logs' = l.rows
        /\ log_files' = l.files
        /\ IF l.raised THEN Raise("LogError") ELSE Goto("check")
    /\ UNCHANGED <<outside,
                   client_state, now, files, call_args, token_reply, result,
                   http_calls, ncalls, exchanges, tok_calls,
                   bearer, cached_before>>

(* get_rate, lines 220-256 *)
RateFinish ==
    /\ pc = "check"
    /\ op = "get_rate"
    /\ IF carrier.status \notin Accepted(op)
         THEN /\ Raise("FedEx rate error")
              /\ result' = <<>>
         ELSE LET quotes == ParseRates(carrier.details, service_type) IN
              /\ Raise(RateVerdict(service_type, quotes))
              /\ result' = IF RateVerdict(service_type, quotes) = "ok"
                             THEN quotes ELSE <<>>
    /\ UNCHANGED <<outside,
                   client_state, now, audit_state, files, call_args,
                   token_reply, http_calls, ncalls, exchanges,
                   tok_calls,
                   bearer, cached_before>>

(* track_shipment, lines 519-524 *)
TrackFinish ==
    /\ pc = "check"
    /\ op = "track_shipment"
    /\ IF carrier.status \notin Accepted(op)
         THEN /\ Raise("FedEx tracking error")
              /\ result' = <<>>
         ELSE /\ Raise("ok")
              /\ result' = <<"raw_detail">>
    /\ UNCHANGED <<outside,
                   client_state, now, audit_state, files, call_args,
                   token_reply, http_calls, ncalls, exchanges,
                   tok_calls,
                   bearer, cached_before>>

(* request_spod, lines 541-562.  base64.b64decode of line 559 stands        *)
(* outside the try block: content that is not base64 raises binascii.Error. *)
SpodFinish ==
    /\ pc = "check"
    /\ op = "request_spod"
    /\ IF carrier.status \notin Accepted(op)
         THEN /\ Raise("FedEx SPOD error")
              /\ UNCHANGED <<result, files>>
         ELSE CASE carrier.doc = "pdf" ->
                    /\ files' = WriteFile(files, "save_path", "pdf")
                    /\ result' = <<"save_path">>
                    /\ Raise("ok")
                [] carrier.doc = "malformed" ->
                    /\ Raise("binascii.Error")
                    /\ UNCHANGED <<result, files>>
                [] carrier.doc = "absent" ->
                    /\ files' = WriteFile(files, "save_path", "json")
                    /\ result' = <<"save_path">>
                    /\ Raise("ok")
    /\ UNCHANGED <<outside,
                   client_state, now, audit_state, call_args, token_reply,
                   http_calls, ncalls, exchanges, tok_calls,
                   bearer, cached_before>>

(* The method has returned or raised; the caller starts over. *)
Return ==
    /\ pc = "done"
    /\ pc' = "idle"
    /\ op' = "none"
    /\ service_type' = NoService
    /\ carrier' = NoReply
    /\ token_reply' = NoTokenReply
    /\ outcome' = "none"
    /\ result' = <<>>
    /\ http_calls' = <<>>
    /\ bearer' = None
    /\ cached_before' = <<None, 0>>
    /\ api_logs' = <<>>
    /\ log_files' = 0
    /\ files' = {}
    /\ UNCHANGED <<outside,
                   client_state, now, ncalls, exchanges, tok_calls>>

Next ==
    \/ Tick
    \/ get_rate
    \/ create_shipment
    \/ track_shipment
    \/ request_spod
    \/ GetAccessToken
    \/ TokenPost
    \/ TokenLog
    \/ TokenCheck
    \/ Post
    \/ Log
    \/ RateFinish
    \/ TrackFinish
    \/ SpodFinish
    \/ Return

Spec == Init /\ [][Next]_vars

----------------------------------------------------------------------------
(* The rate parser on longer answers.  A get_rate call whose token exchange *)
(* and rate request were both answered and logged stands at the status      *)
(* check of line 220, the carrier having answered 200 with up to MaxEntries *)
(* rateReplyDetails entries; the /rates handler of main.py then builds its  *)
(* response from what get_rate returned.                                    *)

RateAnswers ==
    {Reply(FALSE, HTTP_200_OK, d, "none", "none", "none") :
        d \in SeqsUpTo(RateEntries, MaxEntries)}

FirstToken ==
    [fail |-> FALSE, status |-> HTTP_200_OK, has_token |-> TRUE,
     has_expires |-> FALSE, expires_in |-> 0]

InitRates ==
    /\ access_token = 1
    /\ token_expiry = DefaultExpiresIn
    /\ now = 0
    /\ api_logs = <<[endpoint |-> TokenUrl, status_code |-> HTTP_200_OK],
                    [endpoint |-> Url("get_rate"), status_code |-> HTTP_200_OK]>>
    /\ log_files = 2
    /\ files = {}
    /\ pc = "check"
    /\ op = "get_rate"
    /\ service_type \in {NoService} \cup ServiceCodes
    /\ carrier \in RateAnswers
    /\ token_reply = FirstToken
    /\ outcome = "running"
    /\ result = <<>>
    /\ http_calls = <<TokenUrl, Url("get_rate")>>
    /\ bearer = 1
    /\ cached_before = <<None, 0>>
    /\ ncalls = 1
    /\ exchanges = 1
    /\ tok_calls = <<[t |-> 0, posts |-> 1, token |-> 1,
                      expiry |-> DefaultExpiresIn]>>
    /\ InitOutside

(* main.py get_rate, lines 234-249: with a service type the handler answers *)
(* with the first quote of the list, without one with the whole list.       *)
RateResponse_Whole(st, quotes) == [single |-> FALSE, quotes |-> quotes]

RateResponse(st, quotes) ==
    IF st # NoService
      THEN [single |-> TRUE, quotes |-> <<quotes[1]>>]
      ELSE [single |-> FALSE, quotes |-> quotes]

(* main.py get_rate after client.get_rate has returned. *)
RateRoute ==
    /\ pc = "done"
    /\ op = "get_rate"
    /\ outcome = "ok"
    /\ pc' = "answered"
    /\ response' = RateResponse(service_type, result)
    /\ UNCHANGED <<client_state, now, audit_state, files, call_args,
                   token_reply, outcome, result, http_calls, bearer,
                   cached_before, ncalls, exchanges, tok_calls,
                   shipment, ship_args, ship_body, threads, payload>>

NextRates ==
    \/ RateFinish
    \/ RateRoute

SpecRates == InitRates /\ [][NextRates]_vars

----------------------------------------------------------------------------
(* _create_and_send_shipment of main.py: the Shipment row is committed,     *)
(* then the client's create_shipment is called, and an HTTPException it     *)
(* raises marks the row before it is raised again.                          *)

(* The optional arguments: whether a broker party is supplied, the alert    *)
(* addresses (one of them empty), how many trade documents and commodity    *)
(* lines are supplied.                                                      *)
ShipArgs ==
    [is_return : BOOLEAN,
     return_reference : {NoReference, "RMA-1"},
     broker_option : BOOLEAN,
     broker : BOOLEAN,
     third_party_consignee : BOOLEAN,
     ship_alert_emails : {<<>>, <<"">>, <<"a@example.com", "">>},
     etd_documents : {0, 1},
     include_customs : BOOLEAN,
     commodities : {0, 2}]

(* The exceptions create_shipment raises as HTTPException. *)
HTTPExceptions ==
    {"Unsupported service type", "FedEx auth failed",
     "FedEx auth token missing", "FedEx shipment error",
     "FedEx tracking missing in response"}

(* main.py lines 126-172: the row is added and committed; its status column *)
(* takes the default "created" of models.py.                                *)
CommitShipment ==
    /\ pc = "idle"
    /\ shipment = NoShipment
    /\ \E a \in ShipArgs : ship_args' = a
    /\ shipment' = [status |-> "created", tracking_number |-> "",
                    label_path |-> ""]
    /\ UNCHANGED <<client_state, now, audit_state, files, pc, call_args,
                   token_reply, outcome, result, http_calls, bearer,
                   cached_before, ncalls, exchanges, tok_calls, response,
                   ship_body, threads, payload>>

(* main.py lines 174-201: client.create_shipment(...) *)
SendShipment ==
    /\ shipment.status = "created"
    /\ create_shipment

(* main.py lines 202-213: except HTTPException marks the row "error" and    *)
(* raises again; any other exception passes through untouched; a normal     *)
(* return stores the tracking number and the label path.                    *)
HandleShipment ==
    IF outcome \in HTTPExceptions
      THEN [shipment EXCEPT !.status = "error"]
    ELSE IF outcome = "ok"
      THEN [shipment EXCEPT !.tracking_number = result[1],
                            !.label_path = result[2]]
    ELSE shipment

AfterShipment ==
    /\ pc = "done"
    /\ op = "create_shipment"
    /\ pc' = "answered"
    /\ shipment' = HandleShipment
    /\ UNCHANGED <<client_state, now, audit_state, files, call_args,
                   token_reply, outcome, result, http_calls, bearer,
                   cached_before, ncalls, exchanges, tok_calls, response,
                   ship_args, ship_body, threads, payload>>

NextShipment ==
    \/ CommitShipment
    \/ SendShipment
    \/ AfterShipment

SpecShipment == Init /\ [][NextShipment]_vars

----------------------------------------------------------------------------
(* Several callers sharing one FedExClient.  Each runs _get_access_token,   *)
(* lines 125-150, on the one (_access_token, _token_expiry) pair; the       *)
(* method takes no lock, and a caller blocked in self._http.post lets the   *)
(* others run.                                                              *)

sequential == <<files, pc, call_args, token_reply, outcome, result,
                http_calls, bearer, cached_before, ncalls, tok_calls,
                response, shipment, ship_args, ship_body, payload>>

At(t, label) == threads[t].pc = label

Move(t, label) == threads' = [threads EXCEPT ![t].pc = label]

(* A caller enters a public method, which asks _auth_headers for a token. *)
ThreadEnters ==
    \E t \in Threads :
        /\ At(t, "idle")
        /\ Move(t, "token")
        /\ UNCHANGED <<client_state, now, audit_state, exchanges, sequential>>

(* Lines 126-127: the test of the cached pair. *)
ThreadChecks ==
    \E t \in Threads :
        /\ At(t, "token")
        /\ IF TokenFresh THEN Move(t, "have_token") ELSE Move(t, "token_post")
        /\ UNCHANGED <<client_state, now, audit_state, exchanges, sequential>>

(* Line 135: the request leaves for the token endpoint and the caller       *)
(* blocks until the answer arrives.                                         *)
ThreadPosts ==
    \E t \in Threads :
        /\ At(t, "token_post")
        /\ exchanges' = exchanges + 1
        /\ threads' = [threads EXCEPT ![t] = [pc |-> "in_flight",
                                              exchange |-> exchanges + 1]]
        /\ UNCHANGED <<client_state, now, audit_state, sequential>>

(* Lines 135-150: the answer arrives, is logged and checked, and the token  *)
(* and its expiry are stored.                                               *)
ThreadReceives ==
    \E t \in Threads, reply \in TokenReplies, io \in LogOutcomes :
        /\ At(t, "in_flight")
        /\ IF reply.fail
             THEN /\ Move(t, "raised")
                  /\ UNCHANGED <<client_state, audit_state>>
             ELSE LET l == LogInteraction(TokenUrl, reply.status, io)
                      token == IF reply.has_token THEN threads[t].exchange
                                                   ELSE None
                  IN
                  /\ api_logs' = l.rows
                  /\ log_files' = l.files
                  /\ IF l.raised \/ reply.status # HTTP_200_OK
                       THEN /\ Move(t, "raised")
                            /\ UNCHANGED client_state
                       ELSE /\ access_token' = token
                            /\ token_expiry' = now + ExpiresIn(reply)
                            /\ IF token = None THEN Move(t, "raised")
                                                ELSE Move(t, "have_token")
        /\ UNCHANGED <<now, exchanges, sequential>>

NextShared ==
    \/ Tick
    \/ ThreadEnters
    \/ ThreadChecks
    \/ ThreadPosts
    \/ ThreadReceives

SpecShared == Init /\ [][NextShared]_vars

----------------------------------------------------------------------------
(* _extract_tracking, lines 464-476, called on a response JSON of any       *)
(* shape.  A payload is described by what each step of the lookup finds:    *)
(* "output" absent, a list (not a dict) or a dict; "transactionShipments"   *)
(* absent, empty, a string (so that its first element has no .get) or a     *)
(* list of dicts; "masterTrackingNumber" absent, empty or a number;         *)
(* "pieceResponses" absent, empty, a string or a list of dicts; the first   *)
(* piece's "trackingNumber" absent or a number.                             *)

(* The None that _extract_tracking returns. *)
NoTracking == "None"

Payloads ==
    [output : {"absent", "list", "dict"},
     shipments : {"absent", "empty", "string", "list"},
     master : {"absent", "empty", "M1"},
     pieces : {"absent", "empty", "string", "list"},
     piece_tracking : {"absent", "P1"}]

(* Lines 466-473, inside the try: the value returned, or an exception. *)
TrackingLookup(p) ==
    IF p.output = "list" THEN [raised |-> TRUE, value |-> NoTracking]
    ELSE IF p.output = "absent" \/ p.shipments \in {"absent", "empty"}
      THEN [raised |-> FALSE, value |-> NoTracking]
    ELSE IF p.shipments = "string" THEN [raised |-> TRUE, value |-> NoTracking]
    ELSE IF p.master = "M1" THEN [raised |-> FALSE, value |-> "M1"]
    ELSE IF p.pieces \in {"absent", "empty"}
      THEN [raised |-> FALSE, value |-> NoTracking]
    ELSE IF p.pieces = "string" THEN [raised |-> TRUE, value |-> NoTracking]
    ELSE IF p.piece_tracking = "P1" THEN [raised |-> FALSE, value |-> "P1"]
    ELSE [raised |-> FALSE, value |-> NoTracking]

ExtractTracking_Unguarded(p) ==
    IF TrackingLookup(p).raised THEN "raised" ELSE TrackingLookup(p).value

(* Lines 465-476: except Exception returns None. *)
ExtractTracking(p) ==
    IF TrackingLookup(p).raised THEN NoTracking ELSE TrackingLookup(p).value

InitTracking ==
    /\ access_token = None
    /\ token_expiry = 0
    /\ now = 0
    /\ api_logs = <<>>
    /\ log_files = 0
    /\ files = {}
    /\ pc = "extract"
    /\ op = "_extract_tracking"
    /\ service_type = NoService
    /\ carrier = NoReply
    /\ token_reply = NoTokenReply
    /\ outcome = "running"
    /\ result = <<>>
    /\ http_calls = <<>>
    /\ bearer = None
    /\ cached_before = <<None, 0>>
    /\ ncalls = 0
    /\ exchanges = 0
    /\ tok_calls = <<>>
    /\ response = NoResponse
    /\ shipment = NoShipment
    /\ ship_args = DefaultArgs
    /\ ship_body = NoBody
    /\ threads = [t \in Threads |-> NoThread]
    /\ payload \in Payloads

extract_tracking ==
    /\ pc = "extract"
    /\ pc' = "extracted"
    /\ result' = <<ExtractTracking(payload)>>
    /\ outcome' = "ok"
    /\ UNCHANGED <<client_state, now, audit_state, files, call_args,
                   token_reply, http_calls, bearer, cached_before, ncalls,
                   exchanges, tok_calls, outside>>

NextTracking == extract_tracking

SpecTracking == InitTracking /\ [][NextTracking]_vars

----------------------------------------------------------------------------
(* The three error kinds of the gateway, by the detail of the HTTPException *)

UnsupportedServiceErrors == {"Unsupported service type"}
AuthErrors == {"FedEx auth failed", "FedEx auth token missing"}
StatusErrors ==
    {"FedEx rate error", "FedEx shipment error", "FedEx tracking error",
     "FedEx SPOD error"}
CarrierErrors ==
    StatusErrors \cup {"FedEx rate missing in response",
                       "FedEx tracking missing in response"}

Count(seq, x) == Cardinality({i \in 1..Len(seq) : seq[i] = x})

InCall == pc \notin {"idle"}

----------------------------------------------------------------------------
C2_FastPath ==
    [][(pc = "token" /\ access_token # None
            /\ now < token_expiry - SafetyMargin)
        => /\ pc' = "post"
           /\ bearer' = access_token
           /\ UNCHANGED <<access_token, token_expiry, api_logs, log_files,
                          http_calls, exchanges>>]_vars

C2_Witness ==
    /\ pc = "post"
    /\ http_calls = <<>>
    /\ bearer # None
    /\ bearer = access_token
    /\ now < token_expiry - SafetyMargin

(* C3: of two successive runs of _get_access_token on one instance, the     *)
(* first of which exchanged and left a token cached, the second sends no    *)
(* exchange when it starts more than the margin before that token's expiry  *)
(* (one exchange in total) and sends one when it starts at or after the     *)
(* expiry (two in total).                                                   *)
C3_TokenReuse ==
    (Len(tok_calls) = 2 /\ pc # "token_post")
    => LET a == tok_calls[1]
           b == tok_calls[2]
       IN (a.posts = 1 /\ a.token # None)
          => /\ b.t < a.expiry - SafetyMargin => a.posts + b.posts = 1
             /\ b.t >= a.expiry => a.posts + b.posts = 2

C3_Witness ==
    /\ Len(tok_calls) = 2
    /\ pc = "done"
    /\ tok_calls[1].posts = 1
    /\ tok_calls[1].token # None
    /\ tok_calls[2].t >= tok_calls[1].expiry
    /\ tok_calls[1].posts + tok_calls[2].posts = 2

C3_WitnessReuse ==
    /\ Len(tok_calls) = 2
    /\ pc = "done"
    /\ tok_calls[1].posts = 1
    /\ tok_calls[1].token # None
    /\ tok_calls[2].t > tok_calls[1].t
    /\ tok_calls[2].t < tok_calls[1].expiry - SafetyMargin
    /\ tok_calls[1].posts + tok_calls[2].posts = 1

----------------------------------------------------------------------------
(* Exceptions that are none of the gateway's three error kinds: a transport *)
(* failure raised by httpx, an exception raised while writing the audit     *)
(* record, and exceptions of the method's own statements.                   *)
TransportErrors == {"TransportError"}
LogErrors == {"LogError"}

(* The failures that can end an invocation before its own response is      *)
(* looked at.                                                               *)
EarlierFailures ==
    UnsupportedServiceErrors \cup AuthErrors \cup TransportErrors \cup LogErrors

TokenAnswered ==
    Count(http_calls, TokenUrl) > 0 /\ ~token_reply.fail

(* C4: a token exchange answered with a status other than 200, or with 200  *)
(* and no access_token, ends the invocation with the authentication error,  *)
(* and no invocation sends more than one request to the token endpoint.     *)
C4_AuthFailureNotRetried ==
    /\ Count(http_calls, TokenUrl) <= 1
    /\ (/\ pc = "done"
        /\ TokenAnswered
        /\ (token_reply.status # HTTP_200_OK \/ ~token_reply.has_token))
       => outcome \in AuthErrors

(* C5: when an invocation of one of the four operations has ended, however  *)
(* it ended, it has added as many audit records as it has sent requests.    *)
C5_AuditCompleteness ==
    pc = "done" => Len(api_logs) = Len(http_calls)

(* C6: the audit record of the operation's request exists when the response *)
(* is inspected, and whenever an invocation that sent its request ends in a *)
(* carrier error or a transport failure.                                    *)
C6_AuditedWhateverTheOutcome ==
    /\ pc = "check"
       => Len(api_logs) > 0 /\ api_logs[Len(api_logs)].endpoint = Url(op)
    /\ (/\ pc = "done"
        /\ Count(http_calls, Url(op)) > 0
        /\ outcome \in CarrierErrors \cup TransportErrors)
       => \E i \in 1..Len(api_logs) : api_logs[i].endpoint = Url(op)

(* C7: no invocation ends with an exception of the audit logger. *)
C7_LoggerNeverRaises ==
    pc = "done" => outcome \notin LogErrors

(* C8: an invocation that was not ended by an earlier failure ends with the *)
(* carrier error of a rejected status exactly when the carrier's status is  *)
(* not one the operation accepts (200; for create_shipment 200 and 201),    *)
(* and then nothing is returned and no file is written.                     *)
C8_StatusDecides ==
    (/\ pc = "done"
     /\ ~carrier.fail
     /\ outcome \notin EarlierFailures)
    => /\ outcome \in StatusErrors <=> carrier.status \notin Accepted(op)
       /\ carrier.status \notin Accepted(op) => result = <<>> /\ files = {}

(* C9: create_shipment returns a non-empty tracking number and the path of  *)
(* a written label file, and fails with the carrier error when the          *)
(* carrier's accepted response holds no tracking number.                    *)
C9_ShipmentResult ==
    (pc = "done" /\ op = "create_shipment")
    => /\ outcome = "ok"
          => /\ Len(result) = 2
             /\ result[1] # ""
             /\ \E f \in files : f.path = result[2]
       /\ (/\ service_type \in DOMAIN SERVICE_TYPE_MAP
           /\ ~carrier.fail
           /\ carrier.status \in Accepted(op)
           /\ carrier.tracking = "absent"
           /\ outcome \notin EarlierFailures)
          => outcome = "FedEx tracking missing in response"

(* C10: get_rate without a service type, answered 200 with no entry that    *)
(* carries a charge, returns the empty list.                                *)
C10_EmptyQuoteList ==
    (/\ pc = "done"
     /\ op = "get_rate"
     /\ service_type = NoService
     /\ ~carrier.fail
     /\ carrier.status = HTTP_200_OK
     /\ \A i \in 1..Len(carrier.details) : carrier.details[i].rated # "number"
     /\ outcome \notin EarlierFailures)
    => outcome = "ok" /\ result = <<>>

----------------------------------------------------------------------------
(* The rate parser, under SpecRates *)

RateReturned == pc \in {"done", "answered"} /\ op = "get_rate"

(* The entries of an answer that carry a charge, in carrier order. *)
Charged(details) == SelectSeq(details, LAMBDA d : d.rated = "number")

(* C11 (as stated): a get_rate call with a service type of the forward map  *)
(* that succeeds returns exactly one quote, of the requested code, however  *)
(* many rateReplyDetails entries the carrier sent.                          *)
C11_ExactlyOneQuote ==
    (RateReturned /\ service_type \in DOMAIN SERVICE_TYPE_MAP /\ outcome = "ok")
        => /\ Len(result) = 1
           /\ result[1].service_type = service_type

(* C11 (amended): a get_rate call with a service type of the forward map    *)
(* that succeeds returns one quote for every entry of the answer that       *)
(* carries a charge, at least one and possibly several, each of them under  *)
(* the requested code; the /rates handler answers with a single quote, the  *)
(* first of the list.                                                       *)
C11_QuotePerChargedEntry ==
    (RateReturned /\ service_type \in DOMAIN SERVICE_TYPE_MAP /\ outcome = "ok")
        => /\ Len(result) >= 1
           /\ Len(result) = Len(Charged(carrier.details))
           /\ \A i \in 1..Len(result) : result[i].service_type = service_type
           /\ pc = "answered" =>
                /\ response.single
                /\ response.quotes = <<[service_type |-> service_type]>>

C11_Witness ==
    /\ pc = "answered"
    /\ service_type = "RETURNS"
    /\ Len(carrier.details) = 3
    /\ Len(result) = 2
    /\ Len(response.quotes) = 1

(* C12: the parser skips every entry without a charge and never fails on    *)
(* one: whenever the answer has an entry with a charge, get_rate returns    *)
(* the quotes of exactly the entries with a charge, one each, in carrier    *)
(* order.                                                                   *)
C12_SkipsUnchargedEntries ==
    (RateReturned /\ Charged(carrier.details) # <<>>)
        => /\ outcome = "ok"
           /\ result = [i \in 1..Len(Charged(carrier.details)) |->
                          [service_type |->
                             ServiceCode(service_type,
                                         Charged(carrier.details)[i].serviceType)]]

----------------------------------------------------------------------------
(* Failures and retries, under Spec *)

(* C13: create_shipment answered with an accepted status and a tracking     *)
(* number but no extractable encodedLabel, and not ended by an earlier      *)
(* failure, succeeds, and the label file it returns holds the fallback text *)
(* naming the shipment id, the destination and the service type.            *)
C13_LabelFallback ==
    (/\ pc = "done"
     /\ op = "create_shipment"
     /\ service_type \in DOMAIN SERVICE_TYPE_MAP
     /\ ~carrier.fail
     /\ carrier.status \in Accepted(op)
     /\ carrier.tracking # "absent"
     /\ carrier.label = "absent"
     /\ outcome \notin EarlierFailures)
    => /\ outcome = "ok"
       /\ Len(result) = 2
       /\ \E f \in files :
            /\ f.path = result[2]
            /\ f.content = "FedEx Shipment, ID, Destination, Service"

(* C14: an invocation that fails ends with one of three kinds of error,     *)
(* unsupported service, authentication error or carrier error; when the     *)
(* request to the operation's endpoint timed out or could not be delivered, *)
(* it ends with a carrier error.                                            *)
C14_ThreeErrorKinds ==
    (pc = "done" /\ outcome # "ok")
    => /\ outcome \in UnsupportedServiceErrors \cup AuthErrors \cup CarrierErrors
       /\ (Count(http_calls, Url(op)) > 0 /\ carrier.fail)
            => outcome \in CarrierErrors

(* C15: nothing is retried: within one invocation at most one request goes *)
(* to the token endpoint and at most one to the operation's own endpoint,   *)
(* also when one of them fails.                                             *)
C15_NoRetry ==
    InCall => /\ Count(http_calls, TokenUrl) <= 1
              /\ Count(http_calls, Url(op)) <= 1
              /\ Len(http_calls) <= 2

C15_Witness ==
    /\ pc = "done"
    /\ outcome = "FedEx auth failed"
    /\ http_calls = <<TokenUrl>>

C15_WitnessCarrier ==
    /\ pc = "done"
    /\ outcome \in StatusErrors \cup TransportErrors
    /\ http_calls = <<TokenUrl, Url(op)>>

(* C18: when the carrier rejects the operation's call for authentication    *)
(* (status 401), the token the call carried is invalidated: the invocation  *)
(* leaves the cache in a state that _get_access_token does not serve, so    *)
(* the next call exchanges afresh even though the stored expiry is not      *)
(* reached.                                                                 *)
C18_RejectedTokenInvalidated ==
    (/\ pc = "done"
     /\ Count(http_calls, Url(op)) > 0
     /\ ~carrier.fail
     /\ carrier.status = 401
     /\ outcome \in StatusErrors)
    => ~(access_token = bearer /\ TokenFresh)

----------------------------------------------------------------------------
(* Callers sharing one instance, under SpecShared *)

InFlight == {t \in Threads : threads[t].pc = "in_flight"}

----------------------------------------------------------------------------
(* Shipments through _create_and_send_shipment, under SpecShipment *)

(* C16: once the Shipment row is committed, every way the call of           *)
(* create_shipment can fail leaves the row, which is never deleted, in      *)
(* status "error"; no row whose carrier call failed stays "created".        *)
C16_FailedShipmentMarked ==
    (pc = "answered" /\ outcome # "ok")
        => /\ shipment # NoShipment
           /\ shipment.status = "error"

(* C20: the body create_shipment sends holds, when is_return is set, the    *)
(* forward-map string of RETURNS as serviceType and the supplied            *)
(* return_reference as returnShipmentDetail.rma.reason, and otherwise the   *)
(* forward-map string of the requested code and no returnShipmentDetail.    *)
C20_ReturnBody ==
    (/\ pc \in {"done", "answered"}
     /\ op = "create_shipment"
     /\ service_type \in DOMAIN SERVICE_TYPE_MAP
     /\ ship_args.is_return => ship_args.return_reference # NoReference)
    => IF ship_args.is_return
         THEN /\ ship_body.serviceType = SERVICE_TYPE_MAP["RETURNS"]
              /\ ship_body.rma_reason = ship_args.return_reference
         ELSE /\ ship_body.serviceType = SERVICE_TYPE_MAP[service_type]
              /\ ship_body.rma_reason = "absent"

(* The special services the arguments activate. *)
NonEmpty(emails) == SelectSeq(emails, LAMBDA e : e # "")

Activated ==
    (IF ship_args.broker_option /\ ship_args.broker
       THEN {"BROKER_SELECT_OPTION"} ELSE {})
    \cup (IF ship_args.third_party_consignee
            THEN {"THIRD_PARTY_CONSIGNEE"} ELSE {})
    \cup (IF NonEmpty(ship_args.ship_alert_emails) # <<>>
            THEN {"EMAIL_NOTIFICATION"} ELSE {})
    \cup (IF ship_args.etd_documents > 0
            THEN {"ELECTRONIC_TRADE_DOCUMENTS"} ELSE {})

ShipmentCalled ==
    /\ pc \in {"done", "answered"}
    /\ op = "create_shipment"
    /\ service_type \in DOMAIN SERVICE_TYPE_MAP

(* C24: the body create_shipment sends lists in shipmentSpecialServices     *)
(* exactly the activated special services (the block is absent when there   *)
(* is none): the broker option only with a broker party, whose detail is    *)
(* then embedded, the third-party consignee flag, the e-mail notification   *)
(* with one recipient per non-empty address and never with none, the trade  *)
(* documents when some are supplied.                                        *)
C24_SpecialServices ==
    ShipmentCalled
    => /\ ship_body.built
       /\ ship_body.special_types = Activated
       /\ ship_body.broker_detail <=> "BROKER_SELECT_OPTION" \in Activated
       /\ ship_body.email_recipients = Len(NonEmpty(ship_args.ship_alert_emails))
       /\ "EMAIL_NOTIFICATION" \in ship_body.special_types
            => ship_body.email_recipients > 0

(* C25: the body create_shipment sends holds customsClearanceDetail exactly *)
(* when include_customs is set, and then a non-empty commodities list: one  *)
(* line per supplied commodity, or one placeholder line when none was       *)
(* supplied.                                                                *)
C25_CustomsBlock ==
    ShipmentCalled
    => /\ ship_body.built
       /\ ship_body.customs <=> ship_args.include_customs
       /\ ship_body.customs
            => /\ ship_body.commodities > 0
               /\ ship_body.commodities =
                    (IF ship_args.commodities > 0 THEN ship_args.commodities
                                                  ELSE 1)

----------------------------------------------------------------------------
(* Proof of delivery and per-call ordering, under Spec *)

(* C21: request_spod answered 200 and not ended by an earlier failure       *)
(* succeeds whatever the proof-of-delivery documents hold: it returns       *)
(* save_path and has written there the decoded content of the first         *)
(* document when that content is present, and the response JSON otherwise.  *)
C21_SpodAlwaysWrites ==
    (/\ pc = "done"
     /\ op = "request_spod"
     /\ ~carrier.fail
     /\ carrier.status = HTTP_200_OK
     /\ outcome \notin EarlierFailures)
    => /\ outcome = "ok"
       /\ result = <<"save_path">>
       /\ \E f \in files :
            /\ f.path = "save_path"
            /\ carrier.doc = "pdf" => f.content = "pdf"
            /\ carrier.doc = "absent" => f.content = "json"

(* C22: within an invocation the token is obtained before the request to   *)
(* the operation's endpoint is issued, and the audit record of a fresh      *)
(* exchange precedes the record of that request; an invocation ended by the *)
(* authentication error has issued no request to the operation's endpoint   *)
(* and has added exactly one audit record, that of the token exchange.      *)
C22_TokenBeforeCall ==
    InCall =>
      /\ \A i \in 1..Len(http_calls) :
            http_calls[i] = Url(op)
              => /\ bearer # None
                 /\ \A j \in 1..Len(http_calls) :
                       http_calls[j] = TokenUrl => j < i
      /\ \A i, j \in 1..Len(api_logs) :
            (api_logs[i].endpoint = TokenUrl /\ api_logs[j].endpoint = Url(op))
              => i < j
      /\ (pc = "done" /\ outcome \in AuthErrors)
            => /\ Count(http_calls, Url(op)) = 0
               /\ api_logs = <<[endpoint |-> TokenUrl,
                                status_code |-> token_reply.status]>>

C22_Witness ==
    /\ pc = "done"
    /\ http_calls = <<TokenUrl, Url(op)>>
    /\ Len(api_logs) = 2
    /\ api_logs[1].endpoint = TokenUrl
    /\ api_logs[2].endpoint = Url(op)

C22_WitnessAuth ==
    /\ pc = "done"
    /\ outcome = "FedEx auth token missing"
    /\ Len(api_logs) = 1

----------------------------------------------------------------------------
(* The tracking-number parser, under SpecTracking *)

FirstShipment == payload.output = "dict" /\ payload.shipments = "list"

(* C23: _extract_tracking returns the first transaction shipment's master   *)
(* tracking number when it is present and non-empty, otherwise the tracking *)
(* number of that shipment's first piece response, otherwise None; on a     *)
(* payload of any shape it returns, and returns None where a step of the    *)
(* lookup meets a value of the wrong type.                                  *)
C23_ExtractTracking ==
    pc = "extracted" =>
      /\ outcome = "ok"
      /\ result = << IF FirstShipment /\ payload.master = "M1" THEN "M1"
                     ELSE IF /\ FirstShipment
                             /\ payload.pieces = "list"
                             /\ payload.piece_tracking = "P1" THEN "P1"
                     ELSE NoTracking >>

C23_Witness ==
    /\ pc = "extracted"
    /\ payload.output = "dict"
    /\ payload.shipments = "list"
    /\ payload.master = "empty"
    /\ payload.pieces = "string"
    /\ result = <<NoTracking>>

C23_WitnessPiece ==
    /\ pc = "extracted"
    /\ payload.master = "absent"
    /\ result = <<"P1">>

----------------------------------------------------------------------------
(* The token cache over successful and failed exchanges, under Spec *)

TokenReturned == pc \in {"post", "log", "check"}

(* C26: a token returned by _get_access_token is non-empty and is the token *)
(* of the most recent exchange, which answered 200 with an access_token; an *)
(* exchange answered with another status leaves the cached (token, expiry)  *)
(* pair as it was, and one answered 200 without a token clears the cached   *)
(* token; after either, the cache holds no token that the next call would   *)
(* serve without a new exchange.                                            *)
C26_TokenCache ==
    /\ TokenReturned => bearer # None
    /\ bearer # None
         => /\ bearer = access_token
            /\ bearer = exchanges
    /\ (pc = "done" /\ outcome = "FedEx auth failed")
         => /\ token_reply.status # HTTP_200_OK
            /\ <<access_token, token_expiry>> = cached_before
    /\ (pc = "done" /\ outcome = "FedEx auth token missing")
         => /\ token_reply.status = HTTP_200_OK
            /\ access_token = None
    /\ (pc = "done" /\ outcome \in AuthErrors)
         => ~(access_token # None /\ now < token_expiry - SafetyMargin)

C26_Witness ==
    /\ pc = "done"
    /\ outcome = "FedEx auth failed"
    /\ cached_before[1] # None
    /\ access_token = cached_before[1]

C26_WitnessCleared ==
    /\ pc = "done"
    /\ outcome = "FedEx auth token missing"
    /\ cached_before[1] # None
    /\ access_token = None

C26_WitnessServed ==
    /\ pc = "post"
    /\ http_calls = <<>>
    /\ bearer = exchanges
    /\ ncalls = 2

----------------------------------------------------------------------------
(* The label file of create_shipment, under Spec *)

(* C27: when create_shipment ends, the label file exists whenever the       *)
(* carrier answered its request with status 200 or 201, also when the call  *)
(* ends with the carrier error of a missing tracking number (the file is    *)
(* written before the tracking number is checked); when the status was      *)
(* rejected or the call failed earlier, the invocation wrote no label file. *)
C27_LabelBeforeTrackingCheck ==
    (pc = "done" /\ op = "create_shipment")
    => IF /\ service_type \in DOMAIN SERVICE_TYPE_MAP
          /\ ~carrier.fail
          /\ carrier.status \in Accepted(op)
          /\ outcome \notin EarlierFailures
         THEN /\ \E f \in files : f.path = "label_path"
              /\ outcome \in {"ok", "FedEx tracking missing in response"}
         ELSE files = {}

====
